---- MODULE Spec2Model ----
(***************************************************************************)
(* Result retrieval with a TTL cache in front of the durable record store  *)
(* (trial_logic/get_results_caching_redis.py), together with the writers   *)
(* of the durable store (handler/user_agent.py for submissions,            *)
(* handler/feedback_analysis_agent.py for analysis completions).           *)
(***************************************************************************)
EXTENDS Integers, Sequences, FiniteSets, TLC

(***************************************************************************)
(* Python / JSON values.  Every value is a record tagged by its type, so   *)
(* that isinstance(), truthiness and json.dumps / json.loads can be        *)
(* computed the way the interpreter computes them.                         *)
(*   Str(s)      a str that is not a JSON document                         *)
(*   JsonStr(v)  the str json.dumps produces for the value v               *)
(*   Dict(f)     a dict, f a function from its keys to its values          *)
(*   List(q)     a list                                                    *)
(*   Dec(n)      a decimal.Decimal (what the DynamoDB resource returns for *)
(*               a stored number)                                          *)
(***************************************************************************)
None == [t |-> "none"]
Missing == [t |-> "missing"]
Str(s) == [t |-> "str", s |-> s]
JsonStr(v) == [t |-> "str", json |-> v]
Dict(f) == [t |-> "dict", d |-> f]
List(q) == [t |-> "list", l |-> q]
Dec(n) == [t |-> "decimal", n |-> n]
EmptyDict == Dict([k \in {} |-> None])
EmptyList == List(<< >>)

IsStr(v) == v.t = "str"
IsDict(v) == v.t = "dict"
IsList(v) == v.t = "list"
IsJsonText(v) == IsStr(v) /\ "json" \in DOMAIN v
HasKey(v, k) == k \in DOMAIN v.d

\* bool(v): the truth value Python gives a value in `if v:`.
Truthy(v) ==
    CASE v.t = "none" -> FALSE
      [] v.t = "missing" -> FALSE
      [] v.t = "dict" -> DOMAIN v.d # {}
      [] v.t = "list" -> Len(v.l) > 0
      [] v.t = "decimal" -> v.n # 0
      [] v.t = "str" -> IF "json" \in DOMAIN v THEN TRUE ELSE v.s # ""
      [] OTHER -> TRUE

\* dict.get(k, default)
DictGet(v, k, default) == IF HasKey(v, k) THEN v.d[k] ELSE default

\* str(Decimal(n)) for the small naturals the model stores
DecimalText(n) ==
    CASE n = 0 -> "0" [] n = 1 -> "1" [] n = 2 -> "2" [] n = 3 -> "3"
      [] n = 4 -> "4" [] n = 5 -> "5" [] OTHER -> "9"

\* What json.dumps(v, default=str) writes, as the value json.loads reads
\* back from that text: dicts and lists are encoded element by element, a
\* Decimal has no JSON encoding and goes through default=str.
RECURSIVE Jsonable(_)
Jsonable(v) ==
    CASE v.t = "dict" -> Dict([k \in DOMAIN v.d |-> Jsonable(v.d[k])])
      [] v.t = "list" -> List([i \in DOMAIN v.l |-> Jsonable(v.l[i])])
      [] v.t = "decimal" -> Str(DecimalText(v.n))
      [] OTHER -> v

json_dumps(v) == JsonStr(Jsonable(v))

\* json.loads: [exc, value].  A str that is no JSON document raises
\* JSONDecodeError, a non-str argument raises TypeError.
json_loads(v) ==
    IF ~IsStr(v) THEN [exc |-> "TypeError", value |-> None]
    ELSE IF IsJsonText(v) THEN [exc |-> "none", value |-> v.json]
    ELSE [exc |-> "JSONDecodeError", value |-> None]

PyInt(n) == [t |-> "int", n |-> n]

\* str.lower() on the texts the model uses
Lower(s) ==
    CASE s = "High" -> "high" [] s = "HIGH" -> "high"
      [] s = "Low" -> "low" [] s = "Medium" -> "medium"
      [] s = "24 Hours" -> "24 hours" [] s = "Urgent" -> "urgent"
      [] OTHER -> s

(***************************************************************************)
(* Response Normalizer: ResultsRetriever._format_recommendations,          *)
(* _structure_analysis_results, _extract_analysis_data, _format_response.  *)
(* A function that can raise returns [exc, value]; exc = "none" when it    *)
(* returns normally.                                                       *)
(***************************************************************************)
Ok(v) == [exc |-> "none", value |-> v]
Raise(e) == [exc |-> e, value |-> None]

UrgencyPhrases == {"immediate", "urgent", "24 hours", "within the next 2 weeks"}
PriorityBuckets == {"high", "medium", "low"}

\* rec.get('priority', 'medium').lower(), rec.get('department', 'General'),
\* rec.get('timeline', '').lower() of one recommendation
\* seeded defect: the priority is compared as written, not lower-cased
RecPriority_case_sensitive(rec) == DictGet(rec, "priority", Str("medium")).s

RecPriority(rec) == Lower(DictGet(rec, "priority", Str("medium")).s)
RecDepartment(rec) == DictGet(rec, "department", Str("General")).s
RecTimeline(rec) == Lower(DictGet(rec, "timeline", Str("")).s)
\* seeded defect: only the priority makes a recommendation immediate
RecImmediate_priority_only(rec) == RecPriority(rec) = "high"

RecImmediate(rec) == RecPriority(rec) = "high" \/ RecTimeline(rec) \in UrgencyPhrases

\* seeded defect: a recommendation of unknown priority is put in every bucket
InBucket_unknown_in_all(rec, p) ==
    RecPriority(rec) = p \/ RecPriority(rec) \notin PriorityBuckets

\* lines 288-289: the recommendation is appended to the bucket of its priority
InBucket(rec, p) == RecPriority(rec) = p

\* rec.get / .lower() raise AttributeError on an item that is no dict or whose
\* priority (or, when the priority is not high, timeline) is no str
RecWellTyped(rec) ==
    /\ IsDict(rec)
    /\ LET p == DictGet(rec, "priority", Str("medium")) IN
         /\ IsStr(p) /\ ~IsJsonText(p)
         /\ IsStr(DictGet(rec, "department", Str("General")))
         /\ ~IsJsonText(DictGet(rec, "department", Str("General")))
         /\ Lower(p.s) # "high" =>
              LET tl == DictGet(rec, "timeline", Str("")) IN IsStr(tl) /\ ~IsJsonText(tl)

RECURSIVE ImmediateActions(_)
ImmediateActions(q) ==
    IF q = << >> THEN << >>
    ELSE LET rec == Head(q) IN
         (IF RecImmediate(rec)
            THEN << Dict([action |-> DictGet(rec, "action", Str("")),
                          department |-> Str(RecDepartment(rec)),
                          timeline |-> DictGet(rec, "timeline", Str("")),
                          priority |-> Str(RecPriority(rec))]) >>
            ELSE << >>) \o ImmediateActions(Tail(q))

_format_recommendations(recommendations) ==
    IF ~Truthy(recommendations)
      THEN Ok(Dict([message |-> Str("No specific recommendations generated")]))
    ELSE IF ~IsList(recommendations)
      THEN Raise(IF recommendations.t \in {"decimal", "int"}
                   THEN "TypeError" ELSE "AttributeError")
    ELSE LET q == recommendations.l IN
      IF \E i \in DOMAIN q : ~RecWellTyped(q[i]) THEN Raise("AttributeError")
      ELSE Ok(Dict([
        total_recommendations |-> PyInt(Len(q)),
        by_priority |-> Dict([p \in PriorityBuckets |->
            List(SelectSeq(q, LAMBDA rec : InBucket(rec, p)))]),
        by_department |-> Dict([dep \in {RecDepartment(q[i]) : i \in DOMAIN q} |->
            List(SelectSeq(q, LAMBDA rec : RecDepartment(rec) = dep))]),
        immediate_actions |-> List(ImmediateActions(q)),
        detailed_recommendations |-> recommendations]))

_structure_analysis_results(analysis_data) ==
    IF ~Truthy(analysis_data)
      THEN Ok(Dict([summary |-> Str("Analysis results not available"),
                    error |-> Str("No analysis data found")]))
    ELSE IF ~IsDict(analysis_data) THEN Raise("AttributeError")
    ELSE LET recs == _format_recommendations(
                        DictGet(analysis_data, "actionable_recommendations", EmptyList))
         IN IF recs.exc # "none" THEN recs
            ELSE Ok(Dict([
              executive_summary |->
                  DictGet(analysis_data, "executive_summary", Str("Summary not available")),
              key_insights |-> Dict([
                  main_points |-> DictGet(analysis_data, "key_points", EmptyList),
                  customer_impact_assessment |->
                      DictGet(analysis_data, "customer_impact", Str("Not assessed"))]),
              actionable_recommendations |-> recs.value,
              analysis_confidence |->
                  IF Truthy(DictGet(analysis_data, "executive_summary", None))
                    THEN Str("High") ELSE Str("Low")]))

\* A durable record is [status, results, analysis]: the stored status flag
\* ("" when the item has no status attribute), the 'results' attribute and the
\* top-level 'analysis' attribute (Missing when the item has none).
\* json.loads failures (JSONDecodeError, TypeError) are caught and give {}.
LoadsOrEmpty(v) == IF json_loads(v).exc = "none" THEN json_loads(v).value ELSE EmptyDict
StrLoaded(v) == IF IsStr(v) THEN LoadsOrEmpty(v) ELSE v

_extract_analysis_data(record) ==
    IF record.results # Missing
      THEN LET results == record.results IN
           IF IsDict(results)
             THEN IF HasKey(results, "analysis") THEN StrLoaded(results.d["analysis"])
                  ELSE IF HasKey(results, "executive_summary") THEN results
                  ELSE EmptyDict
           ELSE IF IsStr(results) THEN LoadsOrEmpty(results)
           ELSE EmptyDict
    ELSE IF record.analysis # Missing THEN StrLoaded(record.analysis)
    ELSE EmptyDict

status_messages(status) ==
    CASE status = "processing" -> "Feedback is still being processed"
      [] status = "completed" -> "Analysis completed successfully"
      [] status = "failed" -> "Analysis failed - please try again"
      [] status = "not_found" -> "Feedback ID not found"
      [] OTHER -> "Analysis results available"

\* The response object.  Keys the code has not set are held as Missing
\* (results, performance), "" (retrieved_from) or FALSE (cache_hit, which the
\* code always sets together with retrieved_from).  The pass-through
\* bookkeeping fields (created_at, updated_at, request_id, original_data) are
\* copied unchanged by the code and are left out.
\* seeded defect: the stored status flag is kept when nothing was extracted
Unextracted_keeping_status(response) == [response EXCEPT !.results = EmptyDict]

\* lines 214-217: the response for a record with no extractable payload
Unextracted(response) ==
    [response EXCEPT !.status = "failed",
                     !.message = "Analysis results not found or corrupted",
                     !.results = EmptyDict]

_format_response(feedback_id, record) ==
    LET status == IF record.status = "" THEN "completed" ELSE record.status
        response == [feedback_id |-> feedback_id,
                     status |-> status,
                     message |-> status_messages(status),
                     cacheable |-> (status = "completed"),
                     results |-> Missing,
                     cache_hit |-> FALSE,
                     retrieved_from |-> "",
                     performance |-> Missing]
    IN IF status = "processing" THEN Ok(response)
       ELSE LET analysis_data == _extract_analysis_data(record) IN
            IF Truthy(analysis_data)
              THEN LET structured == _structure_analysis_results(analysis_data) IN
                   IF structured.exc # "none" THEN Raise(structured.exc)
                   ELSE Ok([response EXCEPT !.results = structured.value,
                                            !.status = "completed",
                                            !.message = status_messages("completed")])
              ELSE Ok(Unextracted(response))

(***************************************************************************)
(* Bounds and configuration of the model.                                   *)
(***************************************************************************)
Procs == {"p1", "p2"}          \* concurrent retrieval requests
Ids == {"A1", "A2"}            \* feedback ids
NoId == ""                     \* a request without feedback_id
SubmitIds == {"A1"}            \* the ids submissions use
RequestIds == {"A1"}           \* the ids retrieval requests ask for
MaxTs == 2                     \* submission timestamps are 1..MaxTs
MaxTime == 1                   \* the clock runs 0..MaxTime
MaxRequests == 3               \* retrieval requests per behaviour
MaxSubmits == 2                \* submissions per behaviour
MaxDeliveries == 2             \* repeated deliveries of a processed message per behaviour
cache_ttl == 1                 \* CACHE_TTL_SECONDS as configured
Timestamps == 1 .. MaxTs

(***************************************************************************)
(* Durable records.                                                         *)
(***************************************************************************)
NoRecord == [t |-> "norecord"]
NoEntry == [t |-> "noentry"]
NoResult == [t |-> "noresult"]

\* What the analysis agent can return for a feedback (SummaryAnalysis)
Recommendation(priority, timeline) ==
    Dict([action |-> Str("call the customer"), priority |-> Str(priority),
          department |-> Str("Support"), timeline |-> Str(timeline)])
AnalysisOutput(summary) ==
    Dict([executive_summary |-> Str(summary),
          key_points |-> List(<< Str("x") >>),
          actionable_recommendations |->
              IF summary = "Good" THEN EmptyList
              ELSE List(<< Recommendation("High", "next quarter"),
                           Recommendation("low", "24 Hours") >>),
          customer_impact |-> Str("low")])
Summaries == {"Good", "Bad"}

\* user_agent.lambda_handler: state_record put at submission
ProcessingRecord == [status |-> "processing", results |-> Missing, analysis |-> Missing]

\* feedback_analysis_agent.lambda_handler: the attributes update_item sets
\* (status, results) on the item it finds or creates
CompletedUpdate(old, summary) ==
    [status |-> "completed",
     results |-> Dict([feedback_id |-> Str("id"), request_id |-> Str("rid"),
                       analysis |-> json_dumps(AnalysisOutput(summary)),
                       processing_timestamp |-> Str("ts")]),
     analysis |-> IF old = NoRecord THEN Missing ELSE old.analysis]

\* Records the table can hold from other writers: the earlier analysis agent
\* (old_versions/feedback_analysis_agent_v0.py stores tool_results, with no
\* 'analysis' and no 'executive_summary' key), and the stored shapes
\* _extract_analysis_data provides for: a payload under results or under a
\* top-level analysis field, as a mapping or as text, present, empty,
\* unreadable or absent, under any status flag.
LegacyRecords == {
    [status |-> "completed", analysis |-> Missing,
     results |-> Dict([feedback_id |-> Str("id"), tool_results |-> EmptyDict])],
    [status |-> "failed", analysis |-> Missing,
     results |-> Dict([analysis |-> json_dumps(AnalysisOutput("Good"))])],
    [status |-> "completed", analysis |-> Missing, results |-> Str("{not valid json")],
    [status |-> "failed", analysis |-> Missing, results |-> Missing],
    [status |-> "error", analysis |-> Str(""), results |-> Missing],
    [status |-> "completed", analysis |-> Missing,
     results |-> Dict([analysis |-> json_dumps(EmptyDict)])],
    [status |-> "completed", analysis |-> Missing,
     results |-> json_dumps(List(<< Str("x") >>))],
    [status |-> "completed", analysis |-> Missing,
     results |-> Dict([executive_summary |-> Str("Good"), customer_impact |-> Str("5")])] }

VARIABLES
    redis_env,         \* what the process finds at import: the redis library
                       \* cannot be imported, the redis server cannot be
                       \* reached, or it can
    REDIS_AVAILABLE,   \* module level: the redis client was created at import
    db,                \* state_table: [Ids \X Timestamps -> record or NoRecord]
    queue,             \* SQS: the messages in flight, each <<feedback_id, timestamp>>
    cache,             \* redis / in_memory_cache: [Ids -> entry or NoEntry]
    now,               \* time.time()
    pc,                \* per request: where lambda_handler is
    args,              \* per request: [feedback_id, use_cache, force_refresh]
    results,           \* per request: the object get_feedback_results returned
    last,              \* the step a request has just taken: when it returned, its
                       \* arguments, the object get_feedback_results returned and
                       \* the handler's response (NoLast after a step of a writer
                       \* or of the clock)
    hist,              \* per request: what the call did (history)
    preInv,            \* history: the cached value of an id was read from the
                       \* store before the latest invalidation of that id
    firstFetch,        \* history: per id, the first populating fetch of the
                       \* current TTL window, and whether another call has
                       \* written the entry since
    used,              \* requests, submissions and deliveries so far
    client             \* LLMAgentTester.get_results: the attempts made, what each
                       \* one received, and the value the call returned

vars == << redis_env, REDIS_AVAILABLE, db, queue, cache, now, pc, args, results, last,
           hist, preInv, firstFetch, used, client >>

(***************************************************************************)
(* CacheManager: get / set / invalidate on the selected backend.  Each      *)
(* returns [value, cache]: what the method returns and the store after it.  *)
(* fault: the redis client raised (unreachable server, timeout); the        *)
(* process-local dict never raises.                                         *)
(***************************************************************************)
RedisEnvironments == {"no_library", "no_connection", "connected"}

\* lines 19-31: import redis raises ImportError when the library is missing;
\* redis.Redis(...) builds the client object and opens no connection, so it
\* succeeds whether or not the server can be reached
ModuleImport(env) == env # "no_library"

\* a command to a server that cannot be reached raises; a command to a
\* reachable server raises now and then (timeout, connection reset)
CacheFaults == IF ~REDIS_AVAILABLE THEN {FALSE}
               ELSE IF redis_env = "no_connection" THEN {TRUE}
               ELSE BOOLEAN

\* json.dumps(data, default=str) of a response object and json.loads of that text
ResponseDumps(r) == [t |-> "str", json |-> [r EXCEPT !.results = Jsonable(r.results)]]
ResponseLoads(text) == text.json

Unexpired(entry) == now < entry.expires_at
Holds(id) == cache[id] # NoEntry /\ Unexpired(cache[id])

\* seeded defect: a faulting redis get hands back an error object, not None
CacheManager_get_fault_object(id, fault) ==
    IF REDIS_AVAILABLE
      THEN IF fault
             THEN [value |-> [feedback_id |-> id, status |-> "error",
                              message |-> "ConnectionError", cacheable |-> FALSE,
                              results |-> Missing, cache_hit |-> FALSE,
                              retrieved_from |-> "error", performance |-> Missing],
                   cache |-> cache]
           ELSE IF Holds(id)
             THEN [value |-> ResponseLoads(cache[id].data), cache |-> cache]
           ELSE [value |-> None, cache |-> cache]
    ELSE IF cache[id] # NoEntry
      THEN IF now < cache[id].expires_at
             THEN [value |-> cache[id].data, cache |-> cache]
           ELSE [value |-> None, cache |-> [cache EXCEPT ![id] = NoEntry]]
    ELSE [value |-> None, cache |-> cache]

\* seeded defect: the local store serves an entry at the instant it expires
CacheManager_get_at_expiry(id, fault) ==
    IF REDIS_AVAILABLE
      THEN IF fault THEN [value |-> None, cache |-> cache]
           ELSE IF Holds(id)
             THEN [value |-> ResponseLoads(cache[id].data), cache |-> cache]
           ELSE [value |-> None, cache |-> cache]
    ELSE IF cache[id] # NoEntry
      THEN IF now <= cache[id].expires_at
             THEN [value |-> cache[id].data, cache |-> cache]
           ELSE [value |-> None, cache |-> [cache EXCEPT ![id] = NoEntry]]
    ELSE [value |-> None, cache |-> cache]

CacheManager_get(id, fault) ==
    IF REDIS_AVAILABLE
      THEN IF fault THEN [value |-> None, cache |-> cache]
           ELSE IF Holds(id)
             THEN [value |-> ResponseLoads(cache[id].data), cache |-> cache]
           ELSE [value |-> None, cache |-> cache]
    ELSE IF cache[id] # NoEntry
      THEN IF now < cache[id].expires_at
             THEN [value |-> cache[id].data, cache |-> cache]
           ELSE [value |-> None, cache |-> [cache EXCEPT ![id] = NoEntry]]
    ELSE [value |-> None, cache |-> cache]

\* seeded defect: the entry is stored with no time to live
CacheManager_set_without_ttl(id, data, fault) ==
    IF REDIS_AVAILABLE
      THEN IF fault THEN [value |-> FALSE, cache |-> cache]
           ELSE [value |-> TRUE,
                 cache |-> [cache EXCEPT ![id] =
                              [data |-> ResponseDumps(data), expires_at |-> now]]]
    ELSE [value |-> TRUE,
          cache |-> [cache EXCEPT ![id] = [data |-> data, expires_at |-> now]]]

CacheManager_set(id, data, fault) ==
    IF REDIS_AVAILABLE
      THEN IF fault THEN [value |-> FALSE, cache |-> cache]
           ELSE [value |-> TRUE,
                 cache |-> [cache EXCEPT ![id] =
                              [data |-> ResponseDumps(data), expires_at |-> now + cache_ttl]]]
    ELSE [value |-> TRUE,
          cache |-> [cache EXCEPT ![id] = [data |-> data, expires_at |-> now + cache_ttl]]]

\* seeded defect: invalidation empties the whole store
CacheManager_invalidate_flush(id, fault) ==
    IF REDIS_AVAILABLE /\ fault THEN [value |-> FALSE, cache |-> cache]
    ELSE [value |-> TRUE, cache |-> [k \in Ids |-> NoEntry]]

CacheManager_invalidate(id, fault) ==
    IF REDIS_AVAILABLE /\ fault THEN [value |-> FALSE, cache |-> cache]
    ELSE [value |-> TRUE, cache |-> [cache EXCEPT ![id] = NoEntry]]

(***************************************************************************)
(* ResultsRetriever.get_feedback_results, the durable-store path.           *)
(***************************************************************************)
HasRecord(id) == \E ts \in Timestamps : db[<<id, ts>>] # NoRecord
LatestTs(id) == CHOOSE ts \in Timestamps :
                  /\ db[<<id, ts>>] # NoRecord
                  /\ \A u \in Timestamps : db[<<id, u>>] # NoRecord => u <= ts
\* state_table.query(..., ScanIndexForward=False, Limit=1)['Items']
LatestRecord(id) == IF HasRecord(id) THEN db[<<id, LatestTs(id)>>] ELSE NoRecord
StoreQuery(id, fault) == IF fault THEN Raise("ClientError") ELSE Ok(LatestRecord(id))

\* seeded defect: the query removes the record it has read
TableAfterQuery_consuming(id) ==
    IF HasRecord(id) THEN [db EXCEPT ![<<id, LatestTs(id)>>] = NoRecord] ELSE db

\* the table after state_table.query: the only call get_feedback_results
\* makes on the table is this read
TableAfterQuery(id) == db

\* seeded defect: a missing record is reported as a failed analysis
NotFoundResult_as_failed(id) ==
    [feedback_id |-> id, status |-> "failed", message |-> status_messages("failed"),
     cacheable |-> FALSE, results |-> Missing, cache_hit |-> FALSE,
     retrieved_from |-> "database", performance |-> Missing]

NotFoundResult(id) ==
    [feedback_id |-> id, status |-> "not_found", message |-> status_messages("not_found"),
     cacheable |-> FALSE, results |-> Missing, cache_hit |-> FALSE,
     retrieved_from |-> "database", performance |-> Missing]
\* seeded defect: an exception is reported as a failed analysis
ErrorResult_as_failed(id, e) ==
    [feedback_id |-> id, status |-> "failed", message |-> e,
     cacheable |-> FALSE, results |-> Missing, cache_hit |-> FALSE,
     retrieved_from |-> "error", performance |-> Missing]

ErrorResult(id, e) ==
    [feedback_id |-> id, status |-> "error", message |-> e,
     cacheable |-> FALSE, results |-> Missing, cache_hit |-> FALSE,
     retrieved_from |-> "error", performance |-> Missing]

\* the body of the try block (lines 142-167, without the cache set)
FetchBody(id, fault) ==
    LET q == StoreQuery(id, fault) IN
    IF q.exc # "none" THEN Raise(q.exc)
    ELSE IF q.value = NoRecord THEN Ok(NotFoundResult(id))
    ELSE LET f == _format_response(id, q.value) IN
         IF f.exc # "none" THEN Raise(f.exc)
         ELSE Ok([f.value EXCEPT !.cache_hit = FALSE, !.retrieved_from = "database"])

\* seeded defect: the try block without its except clause
FetchFromStore_without_except(id, fault) == FetchBody(id, fault)

\* the try block with its except clause: every exception becomes an error result
FetchFromStore(id, fault) ==
    LET b == FetchBody(id, fault) IN
    IF b.exc # "none" THEN Ok(ErrorResult(id, b.exc)) ELSE b

\* seeded defect: the cache is consulted whatever use_cache says
ConsultCache_always(use_cache) == TRUE

\* line 132: the cache is consulted if use_cache
ConsultCache(use_cache) == use_cache

\* seeded defect: a completed result is cached whatever use_cache says
ShouldCache_ignoring_use_cache(use_cache, result) == result.status = "completed"

\* line 164: the result is cached if use_cache and it is completed
ShouldCache(use_cache, result) == use_cache /\ result.status = "completed"

\* seeded defect: retrieved_from is left as the cached object has it
MarkHit_flag_only(cached_result) == [cached_result EXCEPT !.cache_hit = TRUE]

\* lines 134-138: a truthy cached value is returned with the cache fields set
MarkHit(cached_result) ==
    [cached_result EXCEPT !.cache_hit = TRUE, !.retrieved_from = "cache"]

(***************************************************************************)
(* lambda_handler of the retrieval endpoint.                                *)
(***************************************************************************)
Sources == {"path", "query", "body", "direct"}
\* A request: where it carries feedback_id and the flags it carries.  A
\* request with the id in the URL path carries its flags in the query string.
Events == [source : Sources, feedback_id : RequestIds \cup {NoId},
           use_cache : BOOLEAN, force_refresh : BOOLEAN]

\* lines 311-338: the first non-empty source wins; the path branch reads
\* feedback_id only
ParseEvent(ev) ==
    IF ev.source = "path" /\ ev.feedback_id # NoId
      THEN [feedback_id |-> ev.feedback_id, use_cache |-> TRUE, force_refresh |-> FALSE]
    ELSE [feedback_id |-> ev.feedback_id, use_cache |-> ev.use_cache,
          force_refresh |-> ev.force_refresh]

\* lines 361-363
AfterInvalidate(a) == [a EXCEPT !.use_cache = FALSE]

\* seeded defect: the map without its 'failed' entry
status_code_map_without_failed(status) ==
    CASE status = "not_found" -> 404 [] status = "error" -> 500
      [] status = "processing" -> 202 [] OTHER -> 200

status_code_map(status) ==
    CASE status = "not_found" -> 404 [] status = "error" -> 500
      [] status = "processing" -> 202 [] status = "failed" -> 422
      [] status = "completed" -> 200 [] OTHER -> 200

\* seeded defect: a missing feedback_id is answered like a missing record
MissingParameter_as_not_found ==
    [statusCode |-> 404, body |-> Str("Missing required parameter: feedback_id"),
     x_cache |-> ""]

\* lines 340-355: the response to a request without feedback_id
MissingParameter ==
    [statusCode |-> 400, body |-> Str("Missing required parameter: feedback_id"),
     x_cache |-> ""]

NoResponse == [statusCode |-> 0, body |-> None, x_cache |-> ""]
NoArgs == [feedback_id |-> NoId, use_cache |-> TRUE, force_refresh |-> FALSE]
NoHist == [asked_refresh |-> FALSE, hit |-> FALSE,
           get_fault |-> FALSE, set_fault |-> FALSE, inv_ret |-> "none", inv_fault |-> FALSE,
           db_queries |-> 0, db_fault |-> FALSE, fetched_status |-> "none",
           cache_sets |-> 0, escaped |-> "none", read_pre_inv |-> FALSE]
NoFetch == [t |-> "nofetch"]
NoLast == [op |-> "none", args |-> NoArgs, results |-> NoResult,
           response |-> NoResponse, hist |-> NoHist]
\* a step of a request that has not returned yet
Stepped(op, a, h) == [NoLast EXCEPT !.op = op, !.args = a, !.hist = h]
\* what a request keeps of its history from one step to the next: the faults
\* and return values of a step are on record in last during that step only
Kept(h) == [h EXCEPT !.get_fault = FALSE, !.inv_ret = "none", !.inv_fault = FALSE]

\* the test client before it polls: no attempt made, nothing returned
NoClient == [pc |-> "polling", attempt |-> 0, received |-> << >>, returned |-> None]

Init ==
    /\ client = NoClient
    /\ redis_env \in RedisEnvironments
    /\ REDIS_AVAILABLE = ModuleImport(redis_env)
    /\ \E legacy \in LegacyRecords \cup {NoRecord} :
         /\ db = [k \in Ids \X Timestamps |-> IF k = <<"A1", 1>> THEN legacy ELSE NoRecord]
         \* a table holding a record of an earlier writer receives no new submission
         /\ used = [requests |-> 0, deliveries |-> 0,
                    submits |-> IF legacy = NoRecord THEN 0 ELSE MaxSubmits]
    /\ queue = {}
    /\ cache = [id \in Ids |-> NoEntry]
    /\ now = 0
    /\ pc = [p \in Procs |-> "idle"]
    /\ args = [p \in Procs |-> NoArgs]
    /\ results = [p \in Procs |-> NoResult]
    /\ last = NoLast
    /\ hist = [p \in Procs |-> NoHist]
    /\ preInv = [id \in Ids |-> FALSE]
    /\ firstFetch = [id \in Ids |-> NoFetch]

\* lambda_handler, lines 368-397: the performance metadata added to the result
\* (its timestamp, a wall-clock string nothing reads, is left out)
WithPerformance(r, use_cache) ==
    [r EXCEPT !.performance =
        [cache_enabled |-> use_cache,
         cache_hit |-> r.cache_hit,
         retrieved_from |-> IF r.retrieved_from = "" THEN "unknown" ELSE r.retrieved_from]]

\* lambda_handler, lines 368-413: the transport response for a result, or the
\* generic 500 when an exception reached the handler
Respond(r, use_cache, escaped) ==
    IF escaped # "none"
      THEN [statusCode |-> 500, body |-> Str("Internal server error"), x_cache |-> ""]
    ELSE [statusCode |-> status_code_map(r.status),
          body |-> ResponseDumps(WithPerformance(r, use_cache)),
          x_cache |-> IF r.cache_hit THEN "HIT" ELSE "MISS"]

Fid(p) == args[p].feedback_id
InFlight(p) == pc[p] # "idle"

\* the handler returned: the call is on record as the one that has just
\* returned and the request slot is free again
Returned(p, a, r, resp, h) ==
    /\ last' = [op |-> "returned", args |-> a, results |-> r, response |-> resp, hist |-> h]
    /\ pc' = [pc EXCEPT ![p] = "idle"]
    /\ args' = [args EXCEPT ![p] = NoArgs]
    /\ results' = [results EXCEPT ![p] = NoResult]
    /\ hist' = [hist EXCEPT ![p] = NoHist]

\* lines 361-363: retriever.invalidate_cache(feedback_id); use_cache = False
Invalidate(p, a, h, fault) ==
    LET o == CacheManager_invalidate(a.feedback_id, fault)
        a2 == AfterInvalidate(a)
    IN /\ cache' = o.cache
       /\ args' = [args EXCEPT ![p] = a2]
       /\ pc' = [pc EXCEPT ![p] = "query"]
       /\ hist' = [q \in Procs |->
            IF q = p THEN Kept(h)
            ELSE IF o.value /\ Fid(q) = a.feedback_id /\ pc[q] = "populate"
              THEN [hist[q] EXCEPT !.read_pre_inv = TRUE]
            ELSE hist[q]]
       /\ preInv' = [preInv EXCEPT ![a.feedback_id] = IF o.value THEN FALSE ELSE @]
       /\ firstFetch' = [firstFetch EXCEPT ![a.feedback_id] = NoFetch]
       /\ last' = Stepped("invalidate", a,
                          [h EXCEPT !.inv_ret = IF o.value THEN "True" ELSE "False",
                                    !.inv_fault = fault])
       /\ UNCHANGED results

\* get_feedback_results, lines 132-138: the cache lookup; on a hit the call
\* returns and the handler responds (lines 368-397)
CacheLookup(p, a, h0, fault) ==
    LET id == a.feedback_id
        o == CacheManager_get(id, fault)
        h == [h0 EXCEPT !.hit = (o.value # None), !.get_fault = fault,
                        !.read_pre_inv = (o.value # None /\ preInv[id])]
    IN /\ IF o.value # None
            THEN LET r == WithPerformance(MarkHit(o.value), a.use_cache) IN
                 /\ Returned(p, a, r, Respond(MarkHit(o.value), a.use_cache, "none"), h)
                 \* the process-local store handed out its own object, which
                 \* the service and the handler then write to
                 /\ cache' = IF REDIS_AVAILABLE THEN o.cache
                             ELSE [o.cache EXCEPT ![id].data = r]
                 /\ UNCHANGED preInv
            ELSE /\ hist' = [hist EXCEPT ![p] = Kept(h)]
                 /\ args' = [args EXCEPT ![p] = a]
                 /\ pc' = [pc EXCEPT ![p] = "query"]
                 /\ cache' = o.cache
                 /\ preInv' = [preInv EXCEPT ![id] =
                                 IF o.cache[id] = NoEntry THEN FALSE ELSE @]
                 /\ last' = Stepped("miss", a, h)
                 /\ UNCHANGED results
       /\ UNCHANGED firstFetch

\* lambda_handler, lines 309-366, up to the first store access of the
\* invocation: parse the event; a missing feedback_id is answered 400 at once;
\* force_refresh invalidates; use_cache looks the cache up.  The process-local
\* store belongs to one interpreter, which runs one invocation at a time.
Request(p, ev) ==
    /\ pc[p] = "idle"
    /\ used.requests < MaxRequests
    /\ ~REDIS_AVAILABLE => \A q \in Procs : ~InFlight(q)
    /\ LET a == ParseEvent(ev)
           h == [NoHist EXCEPT !.asked_refresh = ev.force_refresh]
       IN IF a.feedback_id = NoId
            THEN /\ Returned(p, a, NoResult, MissingParameter, h)
                 /\ UNCHANGED << cache, preInv, firstFetch >>
          ELSE IF a.force_refresh
            THEN \E fault \in CacheFaults : Invalidate(p, a, h, fault)
          ELSE IF ConsultCache(a.use_cache)
            THEN \E fault \in CacheFaults : CacheLookup(p, a, h, fault)
          ELSE /\ args' = [args EXCEPT ![p] = a]
               /\ hist' = [hist EXCEPT ![p] = h]
               /\ pc' = [pc EXCEPT ![p] = "query"]
               /\ last' = Stepped("parsed", a, h)
               /\ UNCHANGED << results, cache, preInv, firstFetch >>
    /\ used' = [used EXCEPT !.requests = @ + 1]
    /\ UNCHANGED << redis_env, REDIS_AVAILABLE, db, queue, now >>

\* get_feedback_results, lines 141-162 and 169-177: the durable-store read;
\* a result that is not to be cached is returned and the handler responds
Query(p) ==
    /\ pc[p] = "query"
    /\ \E fault \in BOOLEAN :
         LET o == FetchFromStore(Fid(p), fault)
             h == [hist[p] EXCEPT !.db_queries = @ + 1, !.db_fault = fault,
                                  !.fetched_status =
                                      IF fault \/ LatestRecord(Fid(p)) = NoRecord THEN "none"
                                      ELSE LatestRecord(Fid(p)).status,
                                  !.escaped = o.exc]
         IN IF o.exc # "none"
              THEN Returned(p, args[p], NoResult,
                            Respond(NoResult, args[p].use_cache, o.exc), h)
            ELSE IF ShouldCache(args[p].use_cache, o.value)
              THEN /\ results' = [results EXCEPT ![p] = o.value]
                   /\ hist' = [hist EXCEPT ![p] = h]
                   /\ pc' = [pc EXCEPT ![p] = "populate"]
                   /\ last' = Stepped("fetched", args[p], h)
                   /\ UNCHANGED args
            ELSE Returned(p, args[p], WithPerformance(o.value, args[p].use_cache),
                          Respond(o.value, args[p].use_cache, "none"), h)
    /\ db' = TableAfterQuery(Fid(p))
    /\ UNCHANGED << redis_env, REDIS_AVAILABLE, queue, cache, now, preInv, firstFetch, used >>

\* get_feedback_results, lines 164-167: cache_manager.set, then return; the
\* handler responds
Populate(p) ==
    /\ pc[p] = "populate"
    /\ \E fault \in CacheFaults :
         LET o == CacheManager_set(Fid(p), results[p], fault)
             r == WithPerformance(results[p], args[p].use_cache)
             h == [hist[p] EXCEPT !.set_fault = fault,
                                  !.cache_sets = IF o.value THEN @ + 1 ELSE @]
         IN
         \* the process-local store keeps the object itself, which the
         \* handler then writes to
         /\ cache' = IF REDIS_AVAILABLE THEN o.cache
                     ELSE [o.cache EXCEPT ![Fid(p)].data = r]
         /\ preInv' = [preInv EXCEPT ![Fid(p)] =
                         IF o.value THEN hist[p].read_pre_inv ELSE @]
         /\ firstFetch' = [firstFetch EXCEPT ![Fid(p)] =
                             IF ~o.value THEN @
                             ELSE IF @ = NoFetch
                               THEN [results |-> results[p].results, at |-> now,
                                     rewritten |-> FALSE]
                             ELSE [@ EXCEPT !.rewritten = TRUE]]
         /\ Returned(p, args[p], r, Respond(results[p], args[p].use_cache, "none"), h)
    /\ UNCHANGED << redis_env, REDIS_AVAILABLE, db, queue, now, used >>

(***************************************************************************)
(* The writers of the durable store and the clock.                          *)
(***************************************************************************)
SubmitOutcomes == {"rejected", "put_fault", "send_fault", "accepted"}

\* user_agent.lambda_handler: 400 on a rejected request; otherwise put_item
\* of the processing record (replacing the item with that key), then
\* send_message; a fault in either gives 500.
put_item_send_message(id, ts, outcome) ==
    /\ used.submits < MaxSubmits
    /\ db' = IF outcome \in {"send_fault", "accepted"}
               THEN [db EXCEPT ![<<id, ts>>] = ProcessingRecord] ELSE db
    /\ queue' = IF outcome = "accepted" THEN queue \cup {<<id, ts>>} ELSE queue
    /\ used' = IF outcome \in {"send_fault", "accepted"}
                THEN [used EXCEPT !.submits = @ + 1] ELSE used
    /\ UNCHANGED << redis_env, REDIS_AVAILABLE, cache, now, pc, args, results, hist,
                    preInv, firstFetch >>

Submit(id, ts, outcome) ==
    /\ put_item_send_message(id, ts, outcome)
    /\ last' = NoLast

AnalyzeOutcomes == {"done", "done_redelivered", "fault"}

\* feedback_analysis_agent.lambda_handler on a delivered message: run the
\* agent and update_item the record to completed; any fault is re-raised and
\* the message stays in the queue.  SQS delivers at least once: a message whose
\* record was updated can be delivered again (its deletion was lost, or a
\* later record of its batch faulted and the batch is retried).
run_sync_update_item(m, summary, outcome) ==
    /\ m \in queue
    /\ outcome = "done_redelivered" => used.deliveries < MaxDeliveries
    /\ db' = IF outcome = "fault" THEN db
             ELSE [db EXCEPT ![m] = CompletedUpdate(db[m], summary)]
    /\ queue' = IF outcome = "done" THEN queue \ {m} ELSE queue
    /\ used' = IF outcome = "done_redelivered"
                 THEN [used EXCEPT !.deliveries = @ + 1] ELSE used
    /\ UNCHANGED << redis_env, REDIS_AVAILABLE, cache, now, pc, args, results, hist,
                    preInv, firstFetch >>

Analyze(m, summary, outcome) ==
    /\ run_sync_update_item(m, summary, outcome)
    /\ last' = NoLast

\* time passes; the redis server drops the keys whose TTL has run out
Tick ==
    /\ now < MaxTime
    /\ now' = now + 1
    /\ cache' = IF REDIS_AVAILABLE
                  THEN [id \in Ids |->
                          IF cache[id] # NoEntry /\ cache[id].expires_at <= now + 1
                            THEN NoEntry ELSE cache[id]]
                  ELSE cache
    /\ preInv' = [id \in Ids |-> IF cache'[id] = NoEntry THEN FALSE ELSE preInv[id]]
    /\ firstFetch' = [id \in Ids |->
                        IF firstFetch[id] # NoFetch /\ firstFetch[id].at + cache_ttl <= now + 1
                          THEN NoFetch ELSE firstFetch[id]]
    /\ last' = NoLast
    /\ UNCHANGED << redis_env, REDIS_AVAILABLE, db, queue, pc, args, results, hist, used >>

\* The writers take the outcomes that change the table: an accepted
\* submission and a completed analysis (the other outcomes leave the table
\* and the queue of a retrieval as they were).
Next ==
    \/ \E p \in Procs, ev \in Events : Request(p, ev) /\ UNCHANGED client
    \/ \E p \in Procs : Query(p) /\ UNCHANGED client
    \/ \E p \in Procs : Populate(p) /\ UNCHANGED client
    \/ \E id \in SubmitIds, ts \in Timestamps :
         Submit(id, ts, "accepted") /\ UNCHANGED client
    \/ \E m \in queue, summary \in Summaries :
         Analyze(m, summary, "done") /\ UNCHANGED client
    \/ Tick /\ UNCHANGED client

Spec == Init /\ [][Next]_vars

(***************************************************************************)
(* The cache store on its own: a client of CacheManager and of              *)
(* ResultsRetriever.invalidate_cache calling set, get and invalidate_cache  *)
(* for any id in any order, while time passes.                              *)
(***************************************************************************)
\* the result get_feedback_results hands to cache_manager.set for a completed
\* record of the analysis agent
CompletedResult(id, summary) ==
    [_format_response(id, CompletedUpdate(NoRecord, summary)).value
       EXCEPT !.cache_hit = FALSE, !.retrieved_from = "database"]

\* the call a client has just made: its operation and id, whether the store
\* held an entry for the id before it, whether the call before it was the same
\* call, whether the redis client raised, and what the call returned
Called(op, id, fault, value) ==
    [op |-> op, id |-> id, had_entry |-> cache[id] # NoEntry,
     repeated |-> (last.op = op /\ last.id = id), fault |-> fault, value |-> value]

CacheFrame == UNCHANGED << redis_env, REDIS_AVAILABLE, db, queue, now, pc, args, results,
                           hist, preInv, firstFetch, used >>

cache_set(id, summary) ==
    \E fault \in CacheFaults :
      LET o == CacheManager_set(id, CompletedResult(id, summary), fault) IN
      /\ cache' = o.cache
      /\ last' = [data |-> CompletedResult(id, summary)] @@ Called("set", id, fault, o.value)
      /\ CacheFrame

cache_get(id) ==
    \E fault \in CacheFaults :
      LET o == CacheManager_get(id, fault) IN
      /\ cache' = o.cache
      /\ last' = Called("get", id, fault, o.value)
      /\ CacheFrame

\* ResultsRetriever.invalidate_cache
invalidate_cache(id) ==
    \E fault \in CacheFaults :
      LET o == CacheManager_invalidate(id, fault) IN
      /\ cache' = o.cache
      /\ last' = Called("invalidate_cache", id, fault, o.value)
      /\ CacheFrame

\* an empty table, so that no request of the endpoint is part of a behaviour
CacheInit == Init /\ \A k \in Ids \X Timestamps : db[k] = NoRecord

CacheNext ==
    \/ \E id \in Ids, summary \in Summaries : cache_set(id, summary) /\ UNCHANGED client
    \/ \E id \in Ids : cache_get(id) /\ UNCHANGED client
    \/ \E id \in Ids : invalidate_cache(id) /\ UNCHANGED client
    \/ Tick /\ UNCHANGED client

CacheSpec == CacheInit /\ [][CacheNext]_vars

(***************************************************************************)
(* The processing pipeline on its own: submissions and queue deliveries in  *)
(* any order, with every outcome of each handler.                           *)
(***************************************************************************)
\* the handler invocation that has just ended: which handler, on which record
\* key, how it ended, and the record the table held before it
Invoked(op, key, outcome) ==
    [op |-> op, key |-> key, outcome |-> outcome, before |-> db[key]]

SubmitFeedback(id, ts, outcome) ==
    /\ put_item_send_message(id, ts, outcome)
    /\ last' = Invoked("submit", <<id, ts>>, outcome)

DeliverMessage(m, summary, outcome) ==
    /\ run_sync_update_item(m, summary, outcome)
    /\ last' = Invoked("analyze", m, outcome)

PipelineInit == Init /\ \A k \in Ids \X Timestamps : db[k] = NoRecord

PipelineNext ==
    \/ \E id \in SubmitIds, ts \in Timestamps, outcome \in SubmitOutcomes :
         SubmitFeedback(id, ts, outcome) /\ UNCHANGED client
    \/ \E m \in queue, summary \in Summaries, outcome \in AnalyzeOutcomes :
         DeliverMessage(m, summary, outcome) /\ UNCHANGED client

PipelineSpec == PipelineInit /\ [][PipelineNext]_vars

\* fair queue delivery: a message that stays in the queue is delivered again
\* and again
FairDelivery ==
    \A m \in Ids \X Timestamps :
      WF_vars(\E summary \in Summaries, outcome \in AnalyzeOutcomes :
                DeliverMessage(m, summary, outcome) /\ UNCHANGED client)

FairPipelineSpec == PipelineSpec /\ FairDelivery

(***************************************************************************)
(* The recommendation formatter on its own: _format_recommendations        *)
(* applied to a list of recommendations as the analysis agent writes them   *)
(* (ActionableRecommendation: action, priority, department, timeline, each  *)
(* possibly absent from a stored item).                                     *)
(***************************************************************************)
MaxRecs == 2                   \* recommendations in one list

RecPriorities == {Missing, Str("High"), Str("low"), Str("critical")}
RecTimelines == {Missing, Str("24 Hours"), Str("Urgent"), Str("next quarter")}
RecDepartments == {Missing, Str("Support")}

\* a stored recommendation with the fields it has
RecItem(priority, timeline, department) ==
    LET fields == [action |-> Str("call the customer"), priority |-> priority,
                   timeline |-> timeline, department |-> department]
    IN Dict([k \in {f \in DOMAIN fields : fields[f] # Missing} |-> fields[k]])

RecItems == { RecItem(pr, tl, dep) :
                pr \in RecPriorities, tl \in RecTimelines, dep \in RecDepartments }
RecLists == UNION { [1 .. n -> RecItems] : n \in 0 .. MaxRecs }

FormatInit ==
    /\ client = NoClient
    /\ redis_env = "no_library"
    /\ REDIS_AVAILABLE = ModuleImport(redis_env)
    /\ db = [k \in Ids \X Timestamps |-> NoRecord]
    /\ used = [requests |-> 0, deliveries |-> 0, submits |-> 0]
    /\ queue = {}
    /\ cache = [id \in Ids |-> NoEntry]
    /\ now = 0
    /\ pc = [p \in Procs |-> "idle"]
    /\ args = [p \in Procs |-> NoArgs]
    /\ results = [p \in Procs |-> NoResult]
    /\ hist = [p \in Procs |-> NoHist]
    /\ preInv = [id \in Ids |-> FALSE]
    /\ firstFetch = [id \in Ids |-> NoFetch]
    /\ \E q \in RecLists : last = [op |-> "input", recommendations |-> List(q)]

format_recommendations ==
    /\ last.op = "input"
    /\ last' = [op |-> "formatted", recommendations |-> last.recommendations,
                formatted |-> _format_recommendations(last.recommendations)]
    /\ UNCHANGED << redis_env, REDIS_AVAILABLE, db, queue, cache, now, pc, args,
                    results, hist, preInv, firstFetch, used >>

FormatNext == format_recommendations /\ UNCHANGED client

FormatSpec == FormatInit /\ [][FormatNext]_vars

(***************************************************************************)
(* The retriever without cache (handler/get_results.py).  Its               *)
(* _extract_analysis_data, _structure_analysis_results and                  *)
(* _format_recommendations are the same code as the caching retriever's.    *)
(***************************************************************************)
plain_status_messages(status) ==
    CASE status = "processing" -> "Feedback is still being processed"
      [] status = "completed" -> "Analysis completed successfully"
      [] status = "failed" -> "Analysis failed - please try again"
      [] status = "not_found" -> "Feedback ID not found"
      [] OTHER -> "Analysis results available"

\* _format_response of get_results.py: no cache_metadata
plain_format_response(feedback_id, record) ==
    LET status == IF record.status = "" THEN "completed" ELSE record.status
        response == [feedback_id |-> feedback_id,
                     status |-> status,
                     message |-> plain_status_messages(status),
                     results |-> Missing]
    IN IF status = "processing" THEN Ok(response)
       ELSE LET analysis_data == _extract_analysis_data(record) IN
            IF Truthy(analysis_data)
              THEN LET structured == _structure_analysis_results(analysis_data) IN
                   IF structured.exc # "none" THEN Raise(structured.exc)
                   ELSE Ok([response EXCEPT !.results = structured.value,
                                            !.status = "completed",
                                            !.message = plain_status_messages("completed")])
            ELSE Ok([response EXCEPT !.status = "failed",
                                     !.message = "Analysis results not found or corrupted",
                                     !.results = EmptyDict])

\* get_feedback_results of get_results.py: query, format, every exception
\* becomes an error result
plain_get_feedback_results(feedback_id, fault) ==
    LET q == StoreQuery(feedback_id, fault)
        error(e) == [feedback_id |-> feedback_id, status |-> "error", message |-> e,
                     results |-> Missing]
    IN IF q.exc # "none" THEN error(q.exc)
       ELSE IF q.value = NoRecord
         THEN [feedback_id |-> feedback_id, status |-> "not_found",
               message |-> plain_status_messages("not_found"), results |-> Missing]
       ELSE LET f == plain_format_response(feedback_id, q.value) IN
            IF f.exc # "none" THEN error(f.exc) ELSE f.value

\* lambda_handler of get_results.py, lines 228-235
plain_status_code_map(status) ==
    CASE status = "not_found" -> 404 [] status = "error" -> 500
      [] status = "processing" -> 202 [] status = "failed" -> 422
      [] status = "completed" -> 200 [] OTHER -> 200

(***************************************************************************)
(* The record formatter on its own: _format_response and                    *)
(* _extract_analysis_data applied to one stored record, for the shapes a    *)
(* record's status, results and analysis attributes can take.               *)
(***************************************************************************)
StoredStatuses == {"", "completed", "failed", "processing", "error"}

\* the shapes of the 'results' attribute: absent; a mapping with the analysis
\* as text, as a mapping, as text that is no JSON, or empty; a mapping that is
\* itself the analysis; a mapping with neither key; text of a mapping, of a
\* list, of a number, of a string, and text that is no JSON; a list
StoredResults ==
    { Missing,
      Dict([analysis |-> json_dumps(AnalysisOutput("Bad"))]),
      Dict([analysis |-> AnalysisOutput("Good")]),
      Dict([analysis |-> Str("{not valid json")]),
      Dict([analysis |-> json_dumps(EmptyDict)]),
      Dict([executive_summary |-> Str("Good"), customer_impact |-> Str("5")]),
      Dict([feedback_id |-> Str("id"), tool_results |-> EmptyDict]),
      json_dumps(AnalysisOutput("Good")),
      json_dumps(List(<< Str("x") >>)),
      JsonStr(PyInt(5)),
      json_dumps(Str("done")),
      Str("{not valid json"),
      List(<< Str("x") >>) }

\* the shapes of the top-level 'analysis' attribute
StoredAnalyses ==
    { Missing,
      json_dumps(AnalysisOutput("Bad")),
      AnalysisOutput("Bad"),
      Str("{not valid json") }

StoredRecords == [status : StoredStatuses, results : StoredResults,
                  analysis : StoredAnalyses]

RecordInit ==
    /\ client = NoClient
    /\ redis_env = "no_library"
    /\ REDIS_AVAILABLE = ModuleImport(redis_env)
    /\ used = [requests |-> 0, deliveries |-> 0, submits |-> 0]
    /\ queue = {}
    /\ cache = [id \in Ids |-> NoEntry]
    /\ now = 0
    /\ pc = [p \in Procs |-> "idle"]
    /\ args = [p \in Procs |-> NoArgs]
    /\ results = [p \in Procs |-> NoResult]
    /\ hist = [p \in Procs |-> NoHist]
    /\ preInv = [id \in Ids |-> FALSE]
    /\ firstFetch = [id \in Ids |-> NoFetch]
    \* the table holds the record as the latest one of A1, or no record
    /\ \E record \in StoredRecords \cup {NoRecord} :
         /\ db = [k \in Ids \X Timestamps |->
                    IF k = <<"A1", 1>> THEN record ELSE NoRecord]
         /\ last = [op |-> "stored", record |-> record]

\* both retrievers asked for the id, the caching one with use_cache=False,
\* and each endpoint's transport code for its result
Retrieved(fault) ==
    [fault |-> fault,
     caching |-> FetchFromStore("A1", fault).value,
     caching_code |-> status_code_map(FetchFromStore("A1", fault).value.status),
     plain |-> plain_get_feedback_results("A1", fault),
     plain_code |->
         plain_status_code_map(plain_get_feedback_results("A1", fault).status)]

format_response ==
    /\ last.op = "stored"
    /\ \E fault \in BOOLEAN :
         last' = IF last.record = NoRecord
                   THEN [op |-> "looked_up", record |-> NoRecord] @@ Retrieved(fault)
                 ELSE [op |-> "formatted_record", record |-> last.record,
                       analysis_data |-> _extract_analysis_data(last.record),
                       response |-> _format_response("A1", last.record)]
                      @@ Retrieved(fault)
    /\ UNCHANGED << redis_env, REDIS_AVAILABLE, db, queue, cache, now, pc, args,
                    results, hist, preInv, firstFetch, used >>

RecordNext == format_response /\ UNCHANGED client

RecordSpec == RecordInit /\ [][RecordNext]_vars

(***************************************************************************)
(* The test client: LLMAgentTester.get_results polls the retrieval endpoint *)
(* for one feedback id while the pipeline writes its record.                *)
(***************************************************************************)
\* the attempts a call of get_results makes at most (its default is 10)
max_retries == 2

\* request_body = {"feedback_id": feedback_id}, posted as JSON
request_body ==
    [source |-> "body", feedback_id |-> "A1", use_cache |-> TRUE, force_refresh |-> FALSE]

\* how the handler's response reaches the client: as the HTTP response itself
\* (its statusCode the HTTP status, its body the HTTP body), wrapped as the
\* JSON of a 200 response, the case lines 75-83 parse, or not at all, when
\* session.post raises a RequestException
Deliveries == {"proxy", "wrapped", "lost"}

\* response.status_code
status_code(response, delivery) ==
    IF delivery = "wrapped" THEN 200 ELSE response.statusCode

\* lines 72-76: body_data of a wrapped response, result of a plain one; either
\* is the decoded body of the handler's response
body_data(response) == ResponseLoads(response.body)

\* body_data.get('status') / result.get('status')
get_status(response) ==
    IF IsJsonText(response.body) THEN body_data(response).status ELSE ""

FeedbackNotFound ==
    Dict([error |-> Str("Feedback not found"), status_code |-> PyInt(404)])
MaxRetriesExceeded ==
    Dict([error |-> Str("Max retries exceeded"), status |-> Str("timeout")])

\* the call returns value from inside the loop
returns(c, entry, value) ==
    [pc |-> "returned", attempt |-> c.attempt + 1,
     received |-> Append(c.received, entry), returned |-> value]

\* lines 99-108: the attempt ends without a return; the loop goes on, and
\* past its last attempt the call returns the timeout error
next_attempt(c, entry) ==
    IF c.attempt + 1 = max_retries
      THEN returns(c, entry, MaxRetriesExceeded)
    ELSE [pc |-> "polling", attempt |-> c.attempt + 1,
          received |-> Append(c.received, entry), returned |-> None]

\* lines 61-106: one pass of the loop on the response the handler has given;
\* fetched is the status of the record the handler read from the table
get_results_attempt(c, response, delivery, fetched) ==
    LET entry == [delivery |-> delivery,
                  status_code |-> IF delivery = "lost" THEN 0
                                  ELSE status_code(response, delivery),
                  status |-> IF delivery = "lost" THEN "" ELSE get_status(response),
                  fetched |-> fetched]
    IN IF delivery = "lost" THEN next_attempt(c, entry)
       ELSE IF status_code(response, delivery) = 200
         THEN IF get_status(response) = "completed"
                THEN returns(c, entry, body_data(response))
              ELSE next_attempt(c, entry)
       ELSE IF status_code(response, delivery) = 404
         THEN returns(c, entry, FeedbackNotFound)
       ELSE next_attempt(c, entry)

\* history: the status of the record the handler read from the table for the
\* response it gives in this step; a record marked completed that
\* feedback_analysis_agent did not write is on record as such
record_read ==
    IF /\ pc["p1"] = "query"
       /\ last'.hist.fetched_status = "completed"
       /\ \A summary \in Summaries :
            LatestRecord("A1").results # CompletedUpdate(NoRecord, summary).results
      THEN "completed_by_another_writer"
    ELSE last'.hist.fetched_status

\* the client's state after a step of the handler that serves its request
Polled ==
    IF last'.op = "returned"
      THEN \E delivery \in Deliveries :
             client' = get_results_attempt(client, last'.response, delivery, record_read)
    ELSE client' = client

\* lines 65-69: session.post; the handler takes up the request
post ==
    /\ client.pc = "polling"
    /\ pc["p1"] = "idle"
    /\ Request("p1", request_body)
    /\ Polled

\* the handler goes on with the client's request
serve ==
    /\ client.pc = "polling"
    /\ Query("p1") \/ Populate("p1")
    /\ Polled

\* lines 103-106: the request does not reach the endpoint
RequestException ==
    /\ client.pc = "polling"
    /\ pc["p1"] = "idle"
    /\ client' = next_attempt(client, [delivery |-> "lost", status_code |-> 0,
                                       status |-> "", fetched |-> "none"])
    /\ UNCHANGED << redis_env, REDIS_AVAILABLE, db, queue, cache, now, pc, args, results,
                    last, hist, preInv, firstFetch, used >>

PollNext ==
    \/ post
    \/ serve
    \/ RequestException
    \/ \E id \in SubmitIds, ts \in Timestamps :
         Submit(id, ts, "accepted") /\ UNCHANGED client
    \/ \E m \in queue, summary \in Summaries :
         Analyze(m, summary, "done") /\ UNCHANGED client
    \/ Tick /\ UNCHANGED client

PollSpec == Init /\ [][PollNext]_vars

(***************************************************************************)
(* Properties of the retrieval service.                                     *)
(***************************************************************************)
\* get_feedback_results(id, use_cache) called in the current state and run to
\* its return with no other step in between and no store fault
get_feedback_results(id, use_cache) ==
    LET o == CacheManager_get(id, FALSE) IN
    IF use_cache /\ o.value # None THEN MarkHit(o.value)
    ELSE FetchFromStore(id, FALSE).value

\* the step is the start of a request (lambda_handler, up to its first store access)
RequestStep == used'.requests = used.requests + 1
\* the step is a request answered from the cache
HitStep == RequestStep /\ last'.op = "returned" /\ last'.hist.hit
\* the step is the durable-store read of request p
QueryStep(p) == pc[p] = "query" /\ pc'[p] # "query"
\* the step is the cache write of request p
PopulateStep(p) == pc[p] = "populate" /\ pc'[p] # "populate"
\* a call of get_feedback_results has just returned
CallReturned == last.op = "returned" /\ last.args.feedback_id # NoId

\* C1, as the specification states it: in every reachable state and for every
\* id, get_feedback_results(id, use_cache=True) returns the same status and
\* the same results as get_feedback_results(id, use_cache=False).
C1_CacheNeverChangesAnswer ==
    \A id \in Ids :
        /\ get_feedback_results(id, TRUE).status = get_feedback_results(id, FALSE).status
        /\ get_feedback_results(id, TRUE).results = get_feedback_results(id, FALSE).results

\* C2: a call with use_cache=True made while the cache store holds an
\* unexpired entry for the id (and whose cache get does not fault) returns in
\* that step, returns that entry with cache_hit=True and
\* retrieved_from='cache', and has made no query on the durable store.
C2_HitServedFromCache ==
    [][ (/\ RequestStep
         /\ last'.args.feedback_id # NoId
         /\ last'.args.use_cache /\ ~last'.args.force_refresh
         /\ Holds(last'.args.feedback_id)
         /\ ~last'.hist.get_fault)
        => LET entry == CacheManager_get(last'.args.feedback_id, FALSE).value IN
           /\ last'.op = "returned"
           /\ last'.results.feedback_id = entry.feedback_id
           /\ last'.results.status = entry.status
           /\ last'.results.message = entry.message
           /\ last'.results.results = entry.results
           /\ last'.results.cache_hit = TRUE
           /\ last'.results.retrieved_from = "cache"
           /\ last'.response.x_cache = "HIT"
           /\ last'.hist.db_queries = 0
           /\ db' = db ]_vars

\* C2 witness: a call has returned an entry of the cache
C2_Witness ==
    /\ CallReturned /\ last.hist.hit
    /\ last.results.cache_hit /\ last.results.retrieved_from = "cache"

\* the step in which a call of get_feedback_results obtains the value it
\* returns: a cache hit, or its read of the durable store
ServedStep == HitStep \/ \E p \in Procs : QueryStep(p)

C4_OnlyStoredCompletedCached ==
    [][ \A p \in Procs :
          (PopulateStep(p) /\ last'.hist.cache_sets > 0)
          => last'.hist.fetched_status = "completed" ]_vars

\* C5, as the specification states it: a successful call for an id whose
\* latest record has status 'processing' returns status 'processing' and
\* leaves the cache store as it was.
C5_ProcessingReturnedNotCached ==
    [][ (/\ ServedStep
         /\ HasRecord(last'.args.feedback_id)
         /\ LatestRecord(last'.args.feedback_id).status = "processing"
         /\ ~last'.hist.db_fault)
        => /\ last'.op = "returned"
           /\ last'.results.status = "processing"
           /\ cache' = cache ]_vars

\* C6, as the specification states it: a request that carries
\* force_refresh=true, through any input source, is never answered with
\* retrieved_from='cache': it is answered from the durable store
\* (retrieved_from='database', or 'error' when that read fails).
C6_ForceRefreshBypassesCache ==
    (CallReturned /\ last.hist.asked_refresh)
    => /\ last.results.retrieved_from # "cache"
       /\ last.results.retrieved_from \in {"database", "error"}
       /\ last.hist.db_queries = 1

\* C7, as the specification states it: the next get_feedback_results call
\* after invalidate_cache(id) has returned (here: a call answered while the
\* invalidating request has not yet made its own call) never returns a value
\* that was read from the durable store before the invalidation.
C7_NextCallNeverOld ==
    (/\ CallReturned /\ last.hist.hit
     /\ \E a \in Procs : /\ pc[a] = "query" /\ args[a].force_refresh
                         /\ Fid(a) = last.args.feedback_id
                         /\ hist[a].db_queries = 0)
    => ~last.hist.read_pre_inv

\* C7, with the condition it needs: a call with use_cache=False (the call the
\* endpoint makes after invalidating) never returns a value read from the
\* durable store before an invalidation that has returned: it returns what
\* its own read of the durable store gave.  Only a call with use_cache=True
\* can return such a value, from an entry written after the invalidation.
C7_UncachedCallNeverOld ==
    CallReturned =>
        /\ last.hist.read_pre_inv => last.args.use_cache
        /\ ~last.args.use_cache =>
             /\ ~last.hist.hit
             /\ last.hist.db_queries = 1
             /\ last.results.retrieved_from \in {"database", "error"}

\* C7 witness: the cache holds an entry that a concurrent call wrote after the
\* invalidation from a read made before it, and the invalidating request's
\* use_cache=False call has returned
C7_Witness ==
    /\ CallReturned /\ ~last.args.use_cache /\ last.args.force_refresh
    /\ Holds(last.args.feedback_id) /\ preInv[last.args.feedback_id]
    /\ last.hist.db_queries = 1 /\ ~last.hist.read_pre_inv

\* C9: a call for an id with no durable record (whose store read does not
\* fault) returns status 'not_found' with cache_hit=False and
\* retrieved_from='database', with use_cache True or False, and writes
\* nothing to the cache; no such call is answered from the cache.
C9_NotFound ==
    [][ /\ HitStep => HasRecord(last'.args.feedback_id)
        /\ \A p \in Procs :
             (QueryStep(p) /\ ~HasRecord(Fid(p)) /\ ~last'.hist.db_fault)
             => /\ last'.op = "returned"
                /\ last'.results.status = "not_found"
                /\ last'.results.cache_hit = FALSE
                /\ last'.results.retrieved_from = "database"
                /\ last'.response.statusCode = 404
                /\ last'.hist.cache_sets = 0
                /\ cache' = cache ]_vars

\* C9 witness: a call with use_cache=True for an id with no record has returned
C9_Witness ==
    /\ CallReturned /\ last.args.use_cache
    /\ ~HasRecord(last.args.feedback_id)
    /\ last.results.status = "not_found"

Fetched(p) == IF pc'[p] = "populate" THEN results'[p]
              ELSE [last'.results EXCEPT !.performance = Missing]

\* C11: faults of the cache store are absorbed.  A faulting cache get is a
\* miss: the call goes on to the durable store and leaves the cache as it
\* was, and what it obtains there is exactly what the durable-store path
\* (use_cache=False) produces in that state.  A faulting cache set changes
\* nothing of what is returned: the caller gets the fetched result, as it
\* does when the set succeeds, and no exception reaches the caller.
C11_CacheFaultsAbsorbed ==
    [][ /\ (RequestStep /\ last'.hist.get_fault)
           => /\ last'.op = "miss"
              /\ cache' = cache
              /\ \E p \in Procs : pc[p] = "idle" /\ pc'[p] = "query"
        /\ \A p \in Procs :
             (QueryStep(p) /\ ~last'.hist.db_fault)
             => Fetched(p) = get_feedback_results(Fid(p), FALSE)
        /\ \A p \in Procs :
             PopulateStep(p)
             => /\ last'.op = "returned"
                /\ last'.hist.escaped = "none"
                /\ last'.results = WithPerformance(results[p], args[p].use_cache)
                /\ last'.response = Respond(results[p], args[p].use_cache, "none")
                /\ last'.hist.set_fault => cache' = cache ]_vars

\* C11 witness: a call whose cache set faulted has returned the completed
\* result it fetched, and the store holds no entry for the id
C11_Witness ==
    /\ CallReturned /\ last.hist.set_fault
    /\ last.results.status = "completed"
    /\ last.results.retrieved_from = "database"
    /\ cache[last.args.feedback_id] = NoEntry

\* C12, as the specification states it: when at startup the redis library is
\* missing or the connection to the server cannot be established, the
\* process-local store serves every later call, so a get that follows a set
\* for the same id within the TTL returns the value that was set.
C12_LocalStoreAfterFailedProbe ==
    [][ (/\ redis_env # "connected"
         /\ last.op = "set" /\ last'.op = "get" /\ last'.id = last.id)
        => /\ ~REDIS_AVAILABLE
           /\ last'.value = last.data ]_vars

Terminal(record) == record # NoRecord /\ record.status \in {"completed", "failed"}

\* C13: under every interleaving of submissions (a resubmission with the same
\* feedback_id and timestamp included) and queue deliveries (redelivery and
\* batch retry included), a record that has reached 'completed' or 'failed'
\* is never modified again and never returns to 'processing'.
C13_TerminalRecordsFrozen ==
    [][ \A k \in Ids \X Timestamps : Terminal(db[k]) => db'[k] = db[k] ]_vars

\* a record an accepted submission has created and whose message is queued
Accepted(k) == db[k] # NoRecord /\ db[k].status = "processing" /\ k \in queue

\* C14: every record created 'processing' by an accepted submission
\* eventually reaches 'completed' or 'failed' under fair queue delivery, also
\* when the analysis step faults (the record is then to become 'failed').
C14_ProcessingEventuallyTerminal ==
    \A k \in Ids \X Timestamps : Accepted(k) ~> Terminal(db[k])

\* C15: the retrieval path (cache hit, miss, not found, error, the
\* invalidation of a force refresh, the endpoint's response) never writes the
\* durable store: every step of a retrieval request leaves the table as it was.
C15_RetrievalNeverWritesStore ==
    [][ (RequestStep \/ \E p \in Procs : QueryStep(p) \/ PopulateStep(p))
        => db' = db ]_vars

\* a forced refresh has invalidated, read the record, cached and returned it
C15_Witness ==
    /\ CallReturned
    /\ last.hist.asked_refresh
    /\ last.hist.db_queries = 1
    /\ last.hist.cache_sets = 1
    /\ last.results.status = "completed"
    /\ HasRecord(last.args.feedback_id)

\* statuses no result of get_feedback_results carries
OtherStatuses == {"unknown", "queued", ""}

\* C16: the endpoint maps the status of the result to the transport code:
\* not_found 404, error 500, processing 202, failed 422, completed 200, any
\* other status 200, for a result served from the cache and for a result
\* built from the durable store alike.
C16_StatusToTransportCode ==
    /\ \A st \in OtherStatuses : status_code_map(st) = 200
    /\ (CallReturned /\ last.results # NoResult) =>
         /\ last.results.status = "not_found" => last.response.statusCode = 404
         /\ last.results.status = "error" => last.response.statusCode = 500
         /\ last.results.status = "processing" => last.response.statusCode = 202
         /\ last.results.status = "failed" => last.response.statusCode = 422
         /\ last.results.status = "completed" => last.response.statusCode = 200
         /\ last.results.status \in
              {"not_found", "error", "processing", "failed", "completed"}

\* a record without payload has been answered with 422 from the store
C16_Witness ==
    /\ CallReturned
    /\ last.results # NoResult
    /\ last.results.status = "failed"
    /\ last.results.retrieved_from = "database"
    /\ last.response.statusCode = 422

\* a result served from the cache has been answered with 200
C16_WitnessFromCache ==
    /\ CallReturned
    /\ last.results # NoResult
    /\ last.results.retrieved_from = "cache"
    /\ last.response.statusCode = 200

\* C17: a retrieval request with no feedback_id (its parameters parsed, no
\* id among them) is answered with 400 at once: the request takes this one
\* step, and in it neither the cache store nor the durable store is read or
\* written, a requested force refresh included.
C17_MissingIdAnsweredAtOnce ==
    [][ (RequestStep /\ last'.args.feedback_id = NoId) =>
          /\ last'.op = "returned"
          /\ last'.response.statusCode = 400
          /\ last'.results = NoResult
          /\ last'.hist = [NoHist EXCEPT !.asked_refresh = last'.hist.asked_refresh]
          /\ \A p \in Procs : pc[p] = "idle" => pc'[p] = "idle"
          /\ cache' = cache
          /\ db' = db ]_vars

\* a request asking for a forced refresh without an id has been answered 400
\* while the cache holds an entry
C17_Witness ==
    /\ last.op = "returned"
    /\ last.args.feedback_id = NoId
    /\ last.hist.asked_refresh
    /\ last.response.statusCode = 400
    /\ \E id \in Ids : cache[id] # NoEntry

\* the field of a record that holds its analysis payload, if it has one
PayloadField(record) ==
    IF record.results = Missing THEN record.analysis
    ELSE IF IsDict(record.results) /\ HasKey(record.results, "analysis")
      THEN record.results.d["analysis"]
    ELSE record.results

\* no analysis payload can be extracted from the record: it has no results or
\* analysis field, or its results hold no analysis, or the payload is empty, or
\* it is a stored string that is not valid JSON
Unextractable(record) ==
    LET field == PayloadField(record) IN
    \/ field = Missing
    \/ /\ field = record.results /\ IsDict(field)
       /\ ~HasKey(field, "executive_summary")
    \/ field \in {EmptyDict, json_dumps(EmptyDict)}
    \/ IsStr(field) /\ ~IsJsonText(field)

\* the retrieval that has just read the record reports it as failed, with no
\* results, and does not cache it
ReportedFailed(p) ==
    /\ last'.op = "returned"
    /\ last'.results.status = "failed"
    /\ last'.results.message = "Analysis results not found or corrupted"
    /\ last'.results.results = EmptyDict
    /\ last'.response.statusCode = 422
    /\ last'.hist.cache_sets = 0
    /\ pc'[p] = "idle"
    /\ cache' = cache

\* C18 as stated: every record from which no analysis payload can be
\* extracted is reported 'failed' with message 'Analysis results not found or
\* corrupted' and results = {}, whatever status flag it stores, and the result
\* is not cached.
C18_UnextractableReportedFailed ==
    [][ \A p \in Procs :
          (/\ QueryStep(p) /\ ~last'.hist.db_fault
           /\ HasRecord(Fid(p))
           /\ Unextractable(LatestRecord(Fid(p))))
          => ReportedFailed(p) ]_vars

\* C18 as the code has it: the same, for every stored status flag but
\* 'processing' (a record stored as 'processing' is reported 'processing').
C18_UnextractableReportedFailedUnlessProcessing ==
    [][ \A p \in Procs :
          (/\ QueryStep(p) /\ ~last'.hist.db_fault
           /\ HasRecord(Fid(p))
           /\ Unextractable(LatestRecord(Fid(p)))
           /\ LatestRecord(Fid(p)).status # "processing")
          => ReportedFailed(p) ]_vars

\* a record stored as 'completed' whose results are not valid JSON has been
\* reported failed to a request that uses the cache, and nothing was cached
C18_Witness ==
    /\ CallReturned
    /\ last.args.use_cache
    /\ last.hist.db_queries = 1
    /\ last.results.status = "failed"
    /\ last.results.results = EmptyDict
    /\ HasRecord(last.args.feedback_id)
    /\ LatestRecord(last.args.feedback_id).status = "completed"
    /\ IsStr(LatestRecord(last.args.feedback_id).results)
    /\ Unextractable(LatestRecord(last.args.feedback_id))
    /\ cache[last.args.feedback_id] = NoEntry

\* _format_recommendations has been applied to a non-empty list
Formatted == last.op = "formatted" /\ Len(last.recommendations.l) > 0

\* C19: grouping a non-empty list of recommendations preserves it:
\* total_recommendations is the length of detailed_recommendations,
\* detailed_recommendations is the input unchanged and in order, and the
\* sizes of the high, medium and low buckets sum to at most the total.
C19_GroupingPreservesInput ==
    Formatted =>
      /\ last.formatted.exc = "none"
      /\ LET out == last.formatted.value.d
             total == out["total_recommendations"].n
             buckets == out["by_priority"].d
         IN /\ total = Len(out["detailed_recommendations"].l)
            /\ out["detailed_recommendations"] = last.recommendations
            /\ DOMAIN buckets = {"high", "medium", "low"}
            /\ Len(buckets["high"].l) + Len(buckets["medium"].l)
                 + Len(buckets["low"].l) <= total

\* two recommendations, one of a priority that has no bucket, were grouped
C19_Witness ==
    /\ Formatted
    /\ Len(last.recommendations.l) = 2
    /\ last.formatted.exc = "none"
    /\ Len(last.formatted.value.d["by_priority"].d["low"].l) = 1
    /\ Len(last.formatted.value.d["by_priority"].d["high"].l) = 0
    /\ Len(last.formatted.value.d["by_priority"].d["medium"].l) = 0

\* the claim's condition on one recommendation: its priority, lower-cased and
\* 'medium' when absent, is 'high', or its timeline, lower-cased, is one of
\* the urgency phrases
Urgent(rec) ==
    \/ Lower(IF HasKey(rec, "priority") THEN rec.d["priority"].s ELSE "medium") = "high"
    \/ /\ HasKey(rec, "timeline")
       /\ Lower(rec.d["timeline"].s) \in
            {"immediate", "urgent", "24 hours", "within the next 2 weeks"}

\* the positions of the urgent recommendations of a list, in order
UrgentPositions(q) == SelectSeq([i \in 1 .. Len(q) |-> i], LAMBDA i : Urgent(q[i]))

\* the entry immediate_actions holds for a recommendation
ImmediateEntry(rec) ==
    Dict([action |-> DictGet(rec, "action", Str("")),
          department |-> DictGet(rec, "department", Str("General")),
          timeline |-> DictGet(rec, "timeline", Str("")),
          priority |-> Str(Lower(DictGet(rec, "priority", Str("medium")).s))])

\* C20: a recommendation appears in immediate_actions if and only if its
\* priority (case-insensitive, default 'medium') is 'high' or its timeline
\* (case-insensitive) is a recognized urgency phrase, and each appears there
\* at most once: immediate_actions holds one entry for each urgent position of
\* the input, in order, and nothing else.  In particular an item with
\* priority 'low' and timeline '24 hours' has its entry there.
C20_ImmediateIffUrgent ==
    Formatted =>
      /\ last.formatted.exc = "none"
      /\ LET q == last.recommendations.l
             imm == last.formatted.value.d["immediate_actions"].l
             at == UrgentPositions(q)
         IN /\ Len(imm) = Len(at)
            /\ \A j \in 1 .. Len(at) : imm[j] = ImmediateEntry(q[at[j]])
            /\ \A i \in 1 .. Len(q) :
                 (/\ HasKey(q[i], "priority") /\ Lower(q[i].d["priority"].s) = "low"
                  /\ HasKey(q[i], "timeline") /\ Lower(q[i].d["timeline"].s) = "24 hours")
                 => \E j \in 1 .. Len(imm) : imm[j] = ImmediateEntry(q[i])

\* a list of an item with priority 'low' and timeline '24 Hours' and an item
\* that is not urgent was formatted: immediate_actions holds the first only
C20_Witness ==
    /\ Formatted
    /\ Len(last.recommendations.l) = 2
    /\ last.recommendations.l[1] = RecItem(Str("low"), Str("24 Hours"), Str("Support"))
    /\ last.recommendations.l[2] = RecItem(Str("critical"), Str("next quarter"), Missing)
    /\ last.formatted.exc = "none"
    /\ Len(last.formatted.value.d["immediate_actions"].l) = 1
    /\ last.formatted.value.d["immediate_actions"].l[1].d["priority"] = Str("low")

\* _format_response has been applied to a stored record
FormattedRecord == last.op = "formatted_record"

\* the field the documented chain selects, first match wins: (1) results is a
\* mapping with an 'analysis' key, (2) results is a mapping with an
\* executive-summary key, (3) results is a string, (4) otherwise the top-level
\* 'analysis' field if there is one, (5) otherwise nothing
ChainField(record) ==
    IF IsDict(record.results) /\ HasKey(record.results, "analysis")
      THEN record.results.d["analysis"]
    ELSE IF IsDict(record.results) /\ HasKey(record.results, "executive_summary")
      THEN record.results
    ELSE IF record.results # Missing /\ IsStr(record.results) THEN record.results
    ELSE IF record.analysis # Missing THEN record.analysis
    ELSE Missing

\* a field parsed or accepted: text is decoded (nothing when it is no JSON), a
\* mapping is taken as it is
ParsedOrAccepted(field) ==
    IF field = Missing THEN EmptyDict
    ELSE IF IsStr(field) THEN (IF IsJsonText(field) THEN field.json ELSE EmptyDict)
    ELSE field

\* C21: payload extraction follows the documented ordered chain; in
\* particular a record whose results field matches none of rules 1-3 and that
\* has a top-level 'analysis' field yields that field as the payload.
C21_ExtractionFollowsChain ==
    FormattedRecord =>
      last.analysis_data = ParsedOrAccepted(ChainField(last.record))

\* the stored payload is there but is no mapping: text that decodes to a
\* list, a number or a string, or a stored list
Misshapen(record) ==
    LET field == PayloadField(record) IN
    /\ field # Missing
    /\ \/ IsJsonText(field) /\ ~IsDict(field.json)
       \/ ~IsStr(field) /\ ~IsDict(field)

\* C22: for every existing record whose stored payload cannot be turned into
\* the expected mapping (a stored string that is valid JSON but decodes to a
\* list, number or string included), the retrieval result has status 'failed'
\* (transport code 422), not 'error'.  (Records stored as 'processing' have no
\* payload yet and are left out.)
C22_MisshapenReportedFailed ==
    [][ \A p \in Procs :
          (/\ QueryStep(p) /\ ~last'.hist.db_fault
           /\ HasRecord(Fid(p))
           /\ LatestRecord(Fid(p)).status # "processing"
           /\ (Unextractable(LatestRecord(Fid(p))) \/ Misshapen(LatestRecord(Fid(p)))))
          => /\ last'.op = "returned"
             /\ last'.results.status = "failed"
             /\ last'.response.statusCode = 422 ]_vars

\* the priority the claim gives a recommendation: lower-cased, 'medium' when
\* absent; and its department, 'General' when absent
ClaimedPriority(rec) ==
    Lower(IF HasKey(rec, "priority") THEN rec.d["priority"].s ELSE "medium")
ClaimedDepartment(rec) ==
    IF HasKey(rec, "department") THEN rec.d["department"].s ELSE "General"

\* how many times an item occurs in a sequence
Occurrences(q, rec) == Cardinality({i \in 1 .. Len(q) : q[i] = rec})

\* C23: in by_priority each recommendation is placed in at most one bucket:
\* bucket p of high, medium, low holds exactly the input items whose priority
\* (lower-cased, 'medium' when absent) is p, in input order; an item of any
\* other priority is in no bucket but is in detailed_recommendations and in
\* the by_department group of its department.
C23_BucketsByPriority ==
    Formatted =>
      /\ last.formatted.exc = "none"
      /\ LET q == last.recommendations.l
             out == last.formatted.value.d
             buckets == out["by_priority"].d
         IN /\ DOMAIN buckets = {"high", "medium", "low"}
            /\ \A p \in DOMAIN buckets :
                 buckets[p].l = SelectSeq(q, LAMBDA rec : ClaimedPriority(rec) = p)
            /\ \A i \in 1 .. Len(q) :
                 /\ Occurrences(buckets["high"].l, q[i])
                      + Occurrences(buckets["medium"].l, q[i])
                      + Occurrences(buckets["low"].l, q[i]) <= Occurrences(q, q[i])
                 /\ ClaimedPriority(q[i]) \notin {"high", "medium", "low"} =>
                      /\ \A p \in DOMAIN buckets : Occurrences(buckets[p].l, q[i]) = 0
                      /\ out["detailed_recommendations"].l[i] = q[i]
                      /\ HasKey(out["by_department"], ClaimedDepartment(q[i]))
                      /\ Occurrences(out["by_department"].d[ClaimedDepartment(q[i])].l, q[i])
                           = Occurrences(q, q[i])

\* an item written 'High' and an item of priority 'critical' with no
\* department were grouped: the first is in the high bucket, the second in no
\* bucket and in the General group
C23_Witness ==
    /\ Formatted
    /\ Len(last.recommendations.l) = 2
    /\ last.recommendations.l[1] = RecItem(Str("High"), Missing, Str("Support"))
    /\ last.recommendations.l[2] = RecItem(Str("critical"), Missing, Missing)
    /\ last.formatted.exc = "none"
    /\ last.formatted.value.d["by_priority"].d["high"].l = << last.recommendations.l[1] >>
    /\ last.formatted.value.d["by_department"].d["General"].l
         = << last.recommendations.l[2] >>

\* two calls for the same id have both missed the cache, both read the
\* table, and are both about to populate the cache
BothPopulate(p, q) ==
    /\ p # q
    /\ pc[p] = "populate" /\ pc[q] = "populate"
    /\ Fid(p) = Fid(q)

\* C24: whenever two concurrent get_feedback_results(id, use_cache=True)
\* calls both miss the cache and both populate it, they write the same value,
\* and that value is the normalized form of the table's current latest record
\* for the id, also when the record is updated or resubmitted between the two
\* reads.
C24_ConcurrentPopulatesAgree ==
    \A p, q \in Procs :
      BothPopulate(p, q) =>
        /\ results[p] = results[q]
        /\ results[p] = get_feedback_results(Fid(p), FALSE)

\* C25: the process-local store never returns an expired entry.  A get at
\* time now returns the stored value only if now < expires_at (the time of the
\* set plus the TTL); an entry found with now >= expires_at is removed and the
\* get returns absent; and no entry is removed except by such a get, by
\* invalidate, or by being overwritten by set.
C25_LocalStoreNeverServesExpired ==
    [][ ~REDIS_AVAILABLE =>
          /\ last'.op = "get" =>
               LET entry == cache[last'.id] IN
               IF entry # NoEntry /\ now < entry.expires_at
                 THEN last'.value = entry.data /\ cache' = cache
               ELSE /\ last'.value = None
                    /\ cache' = [cache EXCEPT ![last'.id] = NoEntry]
          /\ last'.op = "set" =>
               cache'[last'.id].expires_at = now + cache_ttl
          /\ \A id \in Ids :
               (cache[id] # NoEntry /\ cache'[id] # cache[id]) =>
                 /\ last'.op \in {"get", "set", "invalidate_cache"}
                 /\ last'.id = id
                 /\ last'.op = "get" => now >= cache[id].expires_at
                 /\ last'.op = "set" => cache'[id] # NoEntry
                 /\ last'.op # "set" => cache'[id] = NoEntry ]_vars

\* the local store held an entry whose time had run out; a get found it,
\* removed it and returned absent
C25_Witness ==
    /\ ~REDIS_AVAILABLE
    /\ last.op = "get"
    /\ last.had_entry
    /\ last.value = None
    /\ cache[last.id] = NoEntry
    /\ now >= cache_ttl

\* C26: the cache is populated only when use_cache was true and the
\* resulting status is 'completed'; a get_feedback_results call with
\* use_cache=False neither reads nor writes the cache store, so the cache
\* content is the same before and after it.  (The invalidation of a force
\* refresh is the handler's own call, made before get_feedback_results.)
C26_UncachedCallLeavesCache ==
    [][ /\ \A p \in Procs :
             PopulateStep(p) => (args[p].use_cache /\ results[p].status = "completed")
        /\ \A id \in Ids :
             (cache[id] = NoEntry /\ cache'[id] # NoEntry) =>
               \E p \in Procs : /\ PopulateStep(p) /\ Fid(p) = id
                                /\ args[p].use_cache
                                /\ results[p].status = "completed"
        /\ (/\ RequestStep
            /\ last'.args.feedback_id # NoId
            /\ ~last'.args.use_cache /\ ~last'.hist.asked_refresh)
           => (last'.op = "parsed" /\ cache' = cache)
        /\ \A p \in Procs :
             (QueryStep(p) /\ ~args[p].use_cache) =>
               /\ last'.op = "returned"
               /\ ~last'.hist.hit
               /\ last'.hist.cache_sets = 0
               /\ pc'[p] = "idle"
               /\ cache' = cache ]_vars

\* a call with use_cache=False has returned a completed result from the store
\* and the cache holds no entry for the id
C26_Witness ==
    /\ CallReturned
    /\ ~last.args.use_cache
    /\ ~last.hist.asked_refresh
    /\ last.hist.db_queries = 1
    /\ last.results.status = "completed"
    /\ last.results.retrieved_from = "database"
    /\ cache[last.args.feedback_id] = NoEntry

\* the value a backend holds for an id, as a get would decode it
HeldValue(id) ==
    IF REDIS_AVAILABLE THEN ResponseLoads(cache[id].data) ELSE cache[id].data

\* C27: the two cache backends are interchangeable: whatever set, get and
\* invalidate calls are made, and whatever fields (cache_hit, retrieved_from,
\* performance) the retrieval service and the endpoint add to a result they
\* obtained, both stores hold the value that was passed to set; a caller
\* modifying the object it passed to set or received from get does not alter
\* the value held.  Every value get_feedback_results passes to set is a store
\* result: cache_hit false, retrieved_from 'database', no performance field.
C27_HeldValueUntouchedByCallers ==
    \A id \in Ids :
      cache[id] # NoEntry =>
        /\ HeldValue(id).cache_hit = FALSE
        /\ HeldValue(id).retrieved_from = "database"
        /\ HeldValue(id).performance = Missing

\* both retrievers have been asked for the id
BothRetrieved == last.op \in {"formatted_record", "looked_up"}

\* C28: the caching retriever called with use_cache=False refines the
\* retriever without cache: for every state of the table and every id both
\* return the same status, message and results, and their endpoints the same
\* transport code; the caching one only adds cache_hit, retrieved_from,
\* cache_metadata and performance.
C28_UncachedRefinesPlain ==
    BothRetrieved =>
      /\ last.caching.status = last.plain.status
      /\ last.caching.message = last.plain.message
      /\ last.caching.results = last.plain.results
      /\ last.caching.feedback_id = last.plain.feedback_id
      /\ last.caching_code = last.plain_code
      /\ DOMAIN last.caching =
           DOMAIN last.plain \cup {"cache_hit", "retrieved_from", "cacheable", "performance"}

\* both have turned a record stored as 'failed', whose results hold the
\* analysis as text, into a completed result
C28_Witness ==
    /\ last.op = "formatted_record"
    /\ ~last.fault
    /\ last.record.status = "failed"
    /\ IsDict(last.record.results)
    /\ last.plain.status = "completed"
    /\ last.caching.status = "completed"
    /\ last.plain.results # Missing
    /\ last.caching_code = 200

\* C29: submission is ordered and all-or-nothing: the submit endpoint
\* answers 202 only when the 'processing' record is stored and its message
\* enqueued, so a queue consumer always finds the record it updates; a request
\* rejected with 400 stores no record and enqueues no message; and a record is
\* never left in 'processing' with no message enqueued for it.
C29_SubmissionAllOrNothing ==
    [][ /\ (last'.op = "submit" /\ last'.outcome = "accepted") =>
             /\ db'[last'.key] = ProcessingRecord
             /\ last'.key \in queue'
        /\ (last'.op = "submit" /\ last'.outcome = "rejected") =>
             (db' = db /\ queue' = queue)
        /\ \A m \in queue' : db'[m] # NoRecord
        /\ \A k \in Ids \X Timestamps :
             (db'[k] # NoRecord /\ db'[k].status = "processing") => k \in queue' ]_vars

\* what an attempt of the test client received: a response carrying the
\* given status
Carried(e, status) == e.delivery # "lost" /\ e.status = status

\* the attempt is one the call returns on: a completed result or an id not found
Final(e) == Carried(e, "completed") \/ Carried(e, "not_found")

\* C30: the test client's result polling makes at most max_retries requests;
\* it returns the response body on the first response carrying status
\* 'completed'; it returns the 404 error at once when the id is not found; it
\* keeps polling on every other outcome (processing, failed, error, request
\* exception); after max_retries attempts without a completed result it
\* returns the timeout error; and when the record it asks for is completed at
\* an attempt, that attempt returns the completed result.
C30_PollingTerminates ==
    LET received == client.received
        n == Len(received)
    IN /\ client.attempt = n
       /\ n <= max_retries
       /\ used.requests <= max_retries
       /\ \A i \in 1..n :
            /\ Carried(received[i], "completed") =>
                 /\ i = n
                 /\ client.pc = "returned"
                 /\ "status" \in DOMAIN client.returned
                 /\ client.returned.status = "completed"
            /\ Carried(received[i], "not_found") =>
                 /\ i = n
                 /\ client.pc = "returned"
                 /\ client.returned = FeedbackNotFound
            /\ (~Final(received[i]) /\ i < max_retries) =>
                 (i < n \/ client.pc = "polling")
            /\ (received[i].delivery # "lost" /\ received[i].fetched = "completed") =>
                 Carried(received[i], "completed")
       /\ (n = max_retries /\ ~Final(received[n])) =>
            (client.pc = "returned" /\ client.returned = MaxRetriesExceeded)
       /\ client.pc = "returned" =>
            (n >= 1 /\ (Final(received[n]) \/ n = max_retries))


====
